---- MODULE Spec2Model ----
(***************************************************************************)
(* Model of nix-pre-build-hook.py: the pre-build hook that classifies a    *)
(* derivation as CUDA-requiring and, if so, gathers the host paths to      *)
(* bind-mount into the build sandbox and prints them as                    *)
(* extra-sandbox-paths directives.                                         *)
(*                                                                         *)
(* A string is a sequence of one-character strings; a Path is a sequence   *)
(* of segments (each a string without "/"), the root being << >>.          *)
(***************************************************************************)
EXTENDS Integers, Sequences, FiniteSets, TLC

----------------------------------------------------------------------------
(* Bounds of the model *)

\* symlinks followed by one resolution before it gives up (ELOOP)
MaxSymlinkDepth == 6
\* paths removed from the host filesystem between gather and the final filter
MaxEnvChanges == 1
\* segments of the synthetic paths get_store_path_parent is applied to
MaxSegs == 5

----------------------------------------------------------------------------
(* Strings *)

\* the characters the model's strings use, in ASCII order
Alphabet ==
  << "*", "-", ".", "/", "0", "1", "2", "3", "4", "=", "D", "E", "G", "L",
     "S", "X", "a", "b", "c", "d", "e", "f", "g", "h", "i", "k", "l", "m",
     "n", "o", "p", "r", "s", "t", "u", "v", "w", "x", "y" >>

CharCode == [c \in {Alphabet[i] : i \in 1..Len(Alphabet)} |->
               CHOOSE i \in 1..Len(Alphabet) : Alphabet[i] = c]

\* Python's str ordering: s < t
RECURSIVE StrLess(_, _)
StrLess(s, t) ==
  IF t = << >> THEN FALSE
  ELSE IF s = << >> THEN TRUE
  ELSE IF Head(s) = Head(t) THEN StrLess(Tail(s), Tail(t))
  ELSE CharCode[Head(s)] < CharCode[Head(t)]

\* str.startswith
StartsWith(s, pre) ==
  /\ Len(pre) <= Len(s)
  /\ SubSeq(s, 1, Len(pre)) = pre

\* `sub in s` for strings
Contains(s, sub) ==
  \E i \in 1..(Len(s) - Len(sub) + 1) : SubSeq(s, i, i + Len(sub) - 1) = sub

\* str.split(sep) for a one-character separator: always at least one part
RECURSIVE SplitAcc(_, _, _, _)
SplitAcc(s, sep, cur, acc) ==
  IF s = << >> THEN Append(acc, cur)
  ELSE IF Head(s) = sep THEN SplitAcc(Tail(s), sep, << >>, Append(acc, cur))
  ELSE SplitAcc(Tail(s), sep, Append(cur, Head(s)), acc)

Split(s, sep) == SplitAcc(s, sep, << >>, << >>)

\* fnmatch of one path segment against a pattern whose only wildcard is "*"
RECURSIVE FnMatch(_, _)
FnMatch(name, pat) ==
  IF pat = << >> THEN name = << >>
  ELSE IF Head(pat) = "*"
    THEN \E k \in 0..Len(name) : FnMatch(SubSeq(name, k + 1, Len(name)), Tail(pat))
  ELSE /\ name # << >>
       /\ Head(name) = Head(pat)
       /\ FnMatch(Tail(name), Tail(pat))

----------------------------------------------------------------------------
(* Paths *)

\* the value of Python's None where a Path is expected: not a Path, since no
\* segment of a Path is empty
None == << << >> >>

\* Path.as_posix() of an absolute path
RECURSIVE as_posix(_)
as_posix(p) ==
  IF p = << >> THEN << "/" >>
  ELSE IF Len(p) = 1 THEN << "/" >> \o p[1]
  ELSE as_posix(SubSeq(p, 1, Len(p) - 1)) \o << "/" >> \o p[Len(p)]

\* the non-empty strings of a sequence of strings, in order
RECURSIVE DropEmpty(_)
DropEmpty(parts) ==
  IF parts = << >> THEN << >>
  ELSE IF Head(parts) = << >> THEN DropEmpty(Tail(parts))
  ELSE << Head(parts) >> \o DropEmpty(Tail(parts))

\* Path(s) for an absolute string s: split at "/", empty segments collapsing
PathFromStr(s) == DropEmpty(Split(s, "/"))

\* Path(a, b) for an absolute string a and a relative string b
PathOf(a, b) == PathFromStr(a \o << "/" >> \o b)

store_prefix == << "/", "n", "i", "x", "/", "s", "t", "o", "r", "e", "/" >>

\* faulty variant: returns the path itself instead of its store root
get_store_path_parent_WholePath(p) ==
  LET p_str == as_posix(p)
  IN  IF ~StartsWith(p_str, store_prefix) THEN None
      ELSE LET parts == Split(SubSeq(p_str, Len(store_prefix) + 1, Len(p_str)), "/")
           IN  IF Len(parts) >= 1 /\ Contains(parts[1], << "-" >>)
                 THEN p
                 ELSE None

\* get_store_path_parent: /nix/store/xxx-name/sub/file |-> /nix/store/xxx-name
get_store_path_parent(p) ==
  LET p_str == as_posix(p)
  IN  IF ~StartsWith(p_str, store_prefix) THEN None
      ELSE LET parts == Split(SubSeq(p_str, Len(store_prefix) + 1, Len(p_str)), "/")
           IN  IF Len(parts) >= 1 /\ Contains(parts[1], << "-" >>)
                 THEN PathOf(store_prefix, parts[1])
                 ELSE None

----------------------------------------------------------------------------
(* Names and paths of the modelled host *)

s_a1_driver == << "a", "1", "-", "d", "r", "i", "v", "e", "r" >>
s_b2_cuda == << "b", "2", "-", "c", "u", "d", "a" >>
s_c3_other == << "c", "3", "-", "o", "t", "h", "e", "r" >>
s_card0 == << "c", "a", "r", "d", "0" >>
s_dev == << "d", "e", "v" >>
s_dri == << "d", "r", "i" >>
s_driver == << "d", "r", "i", "v", "e", "r" >>
s_gl == << "g", "l" >>
s_gone == << "g", "o", "n", "e" >>
s_lib == << "l", "i", "b" >>
s_libGL_so == << "l", "i", "b", "G", "L", ".", "s", "o" >>
s_libGL_so_1 == << "l", "i", "b", "G", "L", ".", "s", "o", ".", "1" >>
s_libcuda_so == << "l", "i", "b", "c", "u", "d", "a", ".", "s", "o" >>
s_libcuda_so_1 == << "l", "i", "b", "c", "u", "d", "a", ".", "s", "o", ".", "1" >>
s_libfoo_so == << "l", "i", "b", "f", "o", "o", ".", "s", "o" >>
s_libx_so == << "l", "i", "b", "x", ".", "s", "o" >>
s_nix == << "n", "i", "x" >>
s_nodash == << "n", "o", "d", "a", "s", "h" >>
s_nvidia0 == << "n", "v", "i", "d", "i", "a", "0" >>
s_nvidiactl == << "n", "v", "i", "d", "i", "a", "c", "t", "l" >>
s_opengl_driver == << "o", "p", "e", "n", "g", "l", "-", "d", "r", "i", "v", "e", "r" >>
s_opt == << "o", "p", "t" >>
s_run == << "r", "u", "n" >>
s_store == << "s", "t", "o", "r", "e" >>
s_usr == << "u", "s", "r" >>

\* /dev
DEV_DIR == << s_dev >>
\* /run/opengl-driver
OPENGL_DIR == << s_run, s_opengl_driver >>
\* /dev/dri
p_dri == << s_dev, s_dri >>
\* /dev/dri/card0
p_card0 == << s_dev, s_dri, s_card0 >>
\* /dev/nvidia0
p_nvidia0 == << s_dev, s_nvidia0 >>
\* /dev/nvidiactl
p_nvidiactl == << s_dev, s_nvidiactl >>
\* /dev/gone
p_dev_gone == << s_dev, s_gone >>
\* /nix
p_nix == << s_nix >>
\* /nix/store
p_store == << s_nix, s_store >>
\* /nix/store/a1-driver
p_a1 == << s_nix, s_store, s_a1_driver >>
\* /nix/store/a1-driver/lib
p_a1_lib == << s_nix, s_store, s_a1_driver, s_lib >>
\* /nix/store/a1-driver/lib/libGL.so.1
p_a1_libGL1 == << s_nix, s_store, s_a1_driver, s_lib, s_libGL_so_1 >>
\* /nix/store/a1-driver/gl
p_a1_gl == << s_nix, s_store, s_a1_driver, s_gl >>
\* /nix/store/a1-driver/gl/lib
p_a1_gl_lib == << s_nix, s_store, s_a1_driver, s_gl, s_lib >>
\* /nix/store/b2-cuda
p_b2 == << s_nix, s_store, s_b2_cuda >>
\* /nix/store/b2-cuda/lib
p_b2_lib == << s_nix, s_store, s_b2_cuda, s_lib >>
\* /nix/store/b2-cuda/lib/libcuda.so.1
p_b2_libcuda1 == << s_nix, s_store, s_b2_cuda, s_lib, s_libcuda_so_1 >>
\* /nix/store/b2-cuda/lib/gone
p_b2_gone == << s_nix, s_store, s_b2_cuda, s_lib, s_gone >>
\* /nix/store/c3-other
p_c3 == << s_nix, s_store, s_c3_other >>
\* /nix/store/c3-other/libfoo.so
p_c3_libfoo == << s_nix, s_store, s_c3_other, s_libfoo_so >>
\* /nix/store/nodash
p_nodash == << s_nix, s_store, s_nodash >>
\* /nix/store/nodash/lib
p_nodash_lib == << s_nix, s_store, s_nodash, s_lib >>
\* /nix/store/nodash/lib/libx.so
p_nodash_libx == << s_nix, s_store, s_nodash, s_lib, s_libx_so >>
\* /opt
p_opt == << s_opt >>
\* /opt/driver
p_opt_driver == << s_opt, s_driver >>
\* /opt/driver/lib
p_opt_driver_lib == << s_opt, s_driver, s_lib >>
\* /usr
p_usr == << s_usr >>
\* /usr/lib
p_usr_lib == << s_usr, s_lib >>
\* /usr/lib/libcuda.so
p_usr_libcuda == << s_usr, s_lib, s_libcuda_so >>
\* /run
p_run == << s_run >>
\* /run/gone
p_run_gone == << s_run, s_gone >>

----------------------------------------------------------------------------
(* The host filesystem: a function from the paths that are present to their
   nodes.  The root << >> is always a directory and is not in the domain. *)

DirNode == [kind |-> "dir", target |-> << >>, readable |-> TRUE]
FileNode == [kind |-> "file", target |-> << >>, readable |-> TRUE]
SecretNode == [kind |-> "file", target |-> << >>, readable |-> FALSE]
LinkNode(t) == [kind |-> "link", target |-> t, readable |-> TRUE]

\* the filesystem holding the entries of a set of <<path, node>> pairs
FsOf(entries) ==
  [p \in {e[1] : e \in entries} |-> (CHOOSE e \in entries : e[1] = p)[2]]

\* Walk the components `rest` from the resolved directory `cur`, following
\* symlinks (the last component's only if follow_last); None when a component
\* is missing, is not a directory, or too many symlinks were followed.
RECURSIVE Walk(_, _, _, _, _)
Walk(f, cur, rest, follow_last, fuel) ==
  IF rest = << >> THEN cur
  ELSE LET cand == Append(cur, Head(rest))
           more == Tail(rest) # << >>
       IN  IF cand \notin DOMAIN f THEN None
           ELSE IF f[cand].kind = "link" /\ (more \/ follow_last)
             THEN IF fuel = 0 THEN None
                  ELSE Walk(f, << >>, f[cand].target \o Tail(rest), follow_last, fuel - 1)
           ELSE IF more /\ f[cand].kind # "dir" THEN None
           ELSE Walk(f, cand, Tail(rest), follow_last, fuel)

\* os.stat(p): the node reached following every symlink, or None
StatPath(f, p) == Walk(f, << >>, p, TRUE, MaxSymlinkDepth)

\* os.lstat(p): the node reached without following the last component
LstatPath(f, p) == Walk(f, << >>, p, FALSE, MaxSymlinkDepth)

\* Path.exists()
exists(f, p) == StatPath(f, p) # None

\* Path.is_symlink()
is_symlink(f, p) ==
  LET q == LstatPath(f, p)
  IN  q # None /\ q # << >> /\ f[q].kind = "link"

\* Path.is_dir()
is_dir(f, p) ==
  LET q == StatPath(f, p)
  IN  q # None /\ (q = << >> \/ f[q].kind = "dir")

\* Path.is_file()
is_file(f, p) ==
  LET q == StatPath(f, p)
  IN  q # None /\ q # << >> /\ f[q].kind = "file"

\* os.access(p, os.R_OK)
access_R_OK(f, p) ==
  LET q == StatPath(f, p)
  IN  q # None /\ (q = << >> \/ f[q].readable)

\* the names os.scandir lists in the directory d
scandir(f, d) ==
  LET q == StatPath(f, d)
  IN  IF q = None \/ ~is_dir(f, d) THEN {}
      ELSE { x[Len(x)] : x \in { y \in DOMAIN f :
                 Len(y) = Len(q) + 1 /\ SubSeq(y, 1, Len(q)) = q } }

\* the matches of the pattern segments pats below base
RECURSIVE GlobFrom(_, _, _)
GlobFrom(f, base, pats) ==
  IF pats = << >> THEN {base}
  ELSE LET pat == Head(pats)
           last == Tail(pats) = << >>
       IN  IF Contains(pat, << "*" >>)
             THEN UNION { GlobFrom(f, Append(base, n), Tail(pats)) :
                            n \in { m \in scandir(f, base) :
                                      /\ FnMatch(m, pat)
                                      /\ last \/ is_dir(f, Append(base, m)) } }
           ELSE IF (IF last THEN exists(f, Append(base, pat))
                            ELSE is_dir(f, Append(base, pat)))
             THEN GlobFrom(f, Append(base, pat), Tail(pats))
           ELSE {}

\* Path.glob(pattern)
glob(f, base, pattern) == GlobFrom(f, base, Split(pattern, "/"))

\* safe_resolve: the final target of p, None when p or its target is missing
safe_resolve(f, p) ==
  IF ~is_symlink(f, p) /\ ~exists(f, p) THEN None
  ELSE StatPath(f, p)


----------------------------------------------------------------------------
(* Configuration *)

CUDA_MARKER == << "w", "a", "n", "t", "s", "-", "c", "u", "d", "a" >>

dev_patterns == << << "n", "v", "i", "d", "i", "a", "*" >>, << "d", "r", "i", "/", "c", "a", "r", "d", "*" >>, << "d", "r", "i", "/", "r", "e", "n", "d", "e", "r", "D", "*" >>, << "n", "v", "h", "o", "s", "t", "*" >>, << "n", "v", "m", "a", "p" >> >>

lib_patterns ==
  << << "l", "i", "b", "c", "u", "d", "a", "*" >>, << "l", "i", "b", "n", "v", "i", "d", "i", "a", "*" >>, << "l", "i", "b", "n", "v", "*" >>, << "l", "i", "b", "E", "G", "L", "*" >>, << "l", "i", "b", "G", "L", "E", "S", "*" >>, << "l", "i", "b", "G", "L", "X", "*" >>,
     << "l", "i", "b", "G", "L", ".", "*" >>, << "l", "i", "b", "v", "u", "l", "k", "a", "n", "*" >> >>

HEADER == << "e", "x", "t", "r", "a", "-", "s", "a", "n", "d", "b", "o", "x", "-", "p", "a", "t", "h", "s" >>

----------------------------------------------------------------------------
(* State *)

VARIABLES
  fs,                            \* the host filesystem
  drv_path_str,                  \* args.derivation_path
  pc,                            \* position in the script
  inspection,                    \* what `nix show-derivation` did, once invoked
  needs_cuda_bindings,
  checked_features_successfully,
  all_paths_to_bind,             \* gather_potential_cuda_paths' locals
  required_store_paths,
  driver_path_added,
  paths_to_bind,                 \* the set gather_potential_cuda_paths returned
  valid_binds,
  next_bind,                     \* index of the print loop
  stdout,                        \* lines written to sys.stdout
  stderr,                        \* lines written to sys.stderr
  exit_status,                   \* -1 while the process runs
  env_changes,                   \* removals done by the environment
  sp_in,                         \* argument of a stand-alone get_store_path_parent call
  sp_out,                        \* its result
  sp_done

vars ==
  << fs, drv_path_str, pc, inspection, needs_cuda_bindings,
     checked_features_successfully, all_paths_to_bind, required_store_paths,
     driver_path_added, paths_to_bind, valid_binds, next_bind, stdout, stderr,
     exit_status, env_changes, sp_in, sp_out, sp_done >>

----------------------------------------------------------------------------
(* Logging *)

\* faulty variant: logs to standard output
log_info_ToStdout(io, message) == [io EXCEPT !.out = Append(@, message)]

\* log_info / log_warning / log_error: print(..., file=sys.stderr)
log_info(io, message) == [io EXCEPT !.err = Append(@, message)]

\* print(line)
print(io, line) == [io EXCEPT !.out = Append(@, line)]

IO == [out |-> stdout, err |-> stderr]

----------------------------------------------------------------------------
(* Feature classifier *)

PyTrue == "True"
PyFalse == "False"
PyNone == "None"

\* dict.get(key, default) on a function
Get(d, key, default) == IF key \in DOMAIN d THEN d[key] ELSE default

EmptyDict == [k \in {} |-> 0]

\* `x in features` for a list
InList(x, features) == \E i \in 1..Len(features) : features[i] = x

\* values of env["__json"]: serialized attribute sets
BLOB_CUDA == "{\"requiredSystemFeatures\":[\"cuda\"]}"
BLOB_KVM == "{\"requiredSystemFeatures\":[\"kvm\"]}"
BLOB_BROKEN == "{\"requiredSystemFeatures\":"

\* the env maps `nix show-derivation` reports in the model
EnvChoices ==
  { EmptyDict,
    [k \in {"requiredSystemFeatures"} |-> << "cuda" >>],
    [k \in {"requiredSystemFeatures"} |-> << "kvm", "cuda" >>],
    [k \in {"requiredSystemFeatures"} |-> << "kvm" >>],
    [k \in {"__json"} |-> BLOB_CUDA],
    [k \in {"__json"} |-> BLOB_KVM],
    [k \in {"__json"} |-> BLOB_BROKEN],
    [k \in {"requiredSystemFeatures", "__json"} |->
       IF k = "__json" THEN BLOB_CUDA ELSE << "kvm" >>] }

NotInvoked == [status |-> "not_invoked"]

\* the behaviours of subprocess.run([NIX_CMD, "show-derivation", drv]) followed
\* by json.loads: the command is missing, exits non-zero, prints something
\* that is not JSON, or prints a mapping (a sequence of <<key, info>> pairs)
InspectionOutcomes ==
  { [status |-> "not_found"], [status |-> "nonzero"], [status |-> "bad_json"],
    [status |-> "ok", data |-> << >>],
    [status |-> "ok", data |-> << << "drv", EmptyDict >> >>] }
  \cup { [status |-> "ok", data |-> << << "drv", [k \in {"env"} |-> e] >> >>] :
           e \in EnvChoices }

\* check_derivation_features: every except clause returns False
check_derivation_features(outcome) ==
  IF outcome.status = "not_found" THEN PyFalse
  ELSE IF outcome.status = "nonzero" THEN PyFalse
  ELSE IF outcome.status = "bad_json" THEN PyFalse
  ELSE IF outcome.data = << >> THEN PyFalse
  ELSE LET actual_drv_path == outcome.data[1][1]
           drv_info == outcome.data[1][2]
           features == Get(Get(drv_info, "env", EmptyDict),
                           "requiredSystemFeatures", << >>)
       IN  IF InList("cuda", features) THEN PyTrue ELSE PyFalse

\* faulty variant: no read-permission check
InspectsDescriptor_NoAccessCheck(f, s) == is_file(f, PathFromStr(s))

\* does the script reach the inspection call for this descriptor
InspectsDescriptor(f, s) ==
  /\ is_file(f, PathFromStr(s))
  /\ access_R_OK(f, PathFromStr(s))

\* the fallback of the main block: CUDA_MARKER in drv_path_str
MarkerFallback(s) == Contains(s, CUDA_MARKER)

\* The main block up to the decision (needs_cuda_bindings).
Classify ==
  /\ pc = "start"
  /\ \E outcome \in (IF InspectsDescriptor(fs, drv_path_str)
                       THEN InspectionOutcomes ELSE {NotInvoked}) :
       LET invoked == outcome # NotInvoked
           check_result == IF invoked THEN check_derivation_features(outcome)
                           ELSE PyNone
           checked == invoked /\ check_result # PyNone
           needs == IF checked THEN check_result = PyTrue
                    ELSE MarkerFallback(drv_path_str)
           io == log_info(IO, "classify")
       IN  /\ inspection' = outcome
           /\ checked_features_successfully' = checked
           /\ needs_cuda_bindings' = needs
           /\ stdout' = io.out
           /\ stderr' = io.err
           /\ pc' = IF needs THEN "gather_devices" ELSE "done"
           /\ exit_status' = IF needs THEN exit_status ELSE 0
  /\ UNCHANGED << fs, drv_path_str, all_paths_to_bind, required_store_paths,
                  driver_path_added, paths_to_bind, valid_binds, next_bind,
                  env_changes, sp_in, sp_out, sp_done >>


----------------------------------------------------------------------------
(* Path gatherer: gather_potential_cuda_paths *)

\* what one glob match of step 1 adds: the node and, if different, its target
DeviceBinds(f, p) ==
  IF exists(f, p) \/ is_symlink(f, p)
    THEN LET abs_p == p
             resolved_dev == safe_resolve(f, p)
         IN  {abs_p} \cup (IF resolved_dev # None /\ resolved_dev # abs_p
                             THEN {resolved_dev} ELSE {})
    ELSE {}

\* step 1: device nodes
DeviceNodes(f) ==
  IF is_dir(f, DEV_DIR)
    THEN UNION { DeviceBinds(f, p) :
                   p \in UNION { glob(f, DEV_DIR, dev_patterns[i]) :
                                   i \in 1..Len(dev_patterns) } }
    ELSE {}

GatherDevices ==
  /\ pc = "gather_devices"
  /\ LET io == log_info(IO, "gathering")
     IN  /\ stdout' = io.out
         /\ stderr' = io.err
  /\ all_paths_to_bind' = DeviceNodes(fs)
  /\ required_store_paths' = {}
  /\ pc' = "gather_driver"
  /\ UNCHANGED << fs, drv_path_str, inspection, needs_cuda_bindings,
                  checked_features_successfully, driver_path_added,
                  paths_to_bind, valid_binds, next_bind, exit_status,
                  env_changes, sp_in, sp_out, sp_done >>

\* faulty variant: the resolved target is always added directly
DriverTarget_AlwaysDirect(f) ==
  LET opengl_dir_target == safe_resolve(f, OPENGL_DIR)
  IN  IF ~is_symlink(f, OPENGL_DIR) \/ opengl_dir_target = None
        THEN [direct |-> {}, store |-> {}]
      ELSE LET store_parent == get_store_path_parent(opengl_dir_target)
           IN  IF store_parent # None
                 THEN [direct |-> {opengl_dir_target}, store |-> {store_parent}]
                 ELSE [direct |-> {opengl_dir_target}, store |-> {}]

\* step 2, the symlink branch: what the driver root's target contributes to
\* all_paths_to_bind (direct) and to required_store_paths (store)
DriverTarget(f) ==
  LET opengl_dir_target == safe_resolve(f, OPENGL_DIR)
  IN  IF ~is_symlink(f, OPENGL_DIR) \/ opengl_dir_target = None
        THEN [direct |-> {}, store |-> {}]
      ELSE LET store_parent == get_store_path_parent(opengl_dir_target)
           IN  IF store_parent # None
                 THEN [direct |-> {}, store |-> {store_parent}]
                 ELSE [direct |-> {opengl_dir_target}, store |-> {}]

\* step 2: the driver root and its target
GatherDriver ==
  /\ pc = "gather_driver"
  /\ IF exists(fs, OPENGL_DIR) \/ is_symlink(fs, OPENGL_DIR)
       THEN /\ all_paths_to_bind' =
                 all_paths_to_bind \cup {OPENGL_DIR} \cup DriverTarget(fs).direct
            /\ required_store_paths' =
                 required_store_paths \cup DriverTarget(fs).store
            /\ driver_path_added' = TRUE
            /\ LET io == log_info(IO, "adding driver path")
               IN  stdout' = io.out /\ stderr' = io.err
       ELSE /\ UNCHANGED << all_paths_to_bind, required_store_paths >>
            /\ driver_path_added' = FALSE
            /\ LET io == log_info(IO, "driver path not found")
               IN  stdout' = io.out /\ stderr' = io.err
  /\ pc' = "gather_libs"
  /\ UNCHANGED << fs, drv_path_str, inspection, needs_cuda_bindings,
                  checked_features_successfully, paths_to_bind, valid_binds,
                  next_bind, exit_status, env_changes, sp_in, sp_out, sp_done >>

opengl_lib_dir == Append(OPENGL_DIR, s_lib)

\* faulty variant: records the library file instead of its store root
LibStoreRoot_TargetItself(f, p) ==
  IF is_symlink(f, p)
    THEN LET target == safe_resolve(f, p)
         IN  IF target # None /\ StartsWith(as_posix(target), store_prefix)
                  /\ get_store_path_parent(target) # None
               THEN {target}
               ELSE {}
    ELSE {}

\* step 3, one glob match: the store root the library symlink p leads to
LibStoreRoot(f, p) ==
  IF is_symlink(f, p)
    THEN LET target == safe_resolve(f, p)
         IN  IF target # None /\ StartsWith(as_posix(target), store_prefix)
                  /\ get_store_path_parent(target) # None
               THEN {get_store_path_parent(target)}
               ELSE {}
    ELSE {}

\* step 3: the store roots of the libraries in the driver root's lib directory
LibStoreRoots(f) ==
  UNION { LibStoreRoot(f, p) :
            p \in UNION { glob(f, opengl_lib_dir, lib_patterns[i]) :
                            i \in 1..Len(lib_patterns) } }

GatherLibs ==
  /\ pc = "gather_libs"
  /\ IF driver_path_added /\ is_dir(fs, opengl_lib_dir)
       THEN /\ required_store_paths' = required_store_paths \cup LibStoreRoots(fs)
            /\ LET io == log_info(IO, "scanning libs")
               IN  stdout' = io.out /\ stderr' = io.err
       ELSE /\ UNCHANGED required_store_paths
            /\ IF driver_path_added
                 THEN LET io == log_info(IO, "library directory not found")
                      IN  stdout' = io.out /\ stderr' = io.err
                 ELSE UNCHANGED << stdout, stderr >>
  /\ pc' = "gather_merge"
  /\ UNCHANGED << fs, drv_path_str, inspection, needs_cuda_bindings,
                  checked_features_successfully, all_paths_to_bind,
                  driver_path_added, paths_to_bind, valid_binds, next_bind,
                  exit_status, env_changes, sp_in, sp_out, sp_done >>

\* step 4 and the return
GatherMerge ==
  /\ pc = "gather_merge"
  /\ all_paths_to_bind' = all_paths_to_bind \cup required_store_paths
  /\ paths_to_bind' = all_paths_to_bind'
  /\ LET io == log_info(IO, "collected")
     IN  stdout' = io.out /\ stderr' = io.err
  /\ pc' = "filter"
  /\ UNCHANGED << fs, drv_path_str, inspection, needs_cuda_bindings,
                  checked_features_successfully, required_store_paths,
                  driver_path_added, valid_binds, next_bind, exit_status,
                  env_changes, sp_in, sp_out, sp_done >>

----------------------------------------------------------------------------
(* The environment: a gathered path disappears before the bind list is built
   ("/dev/nvidia* exists but /dev/nvidia0 is gone") *)

\* f without p and everything below it
RemoveTree(f, p) ==
  [q \in { x \in DOMAIN f : ~(Len(x) >= Len(p) /\ SubSeq(x, 1, Len(p)) = p) }
     |-> f[q]]

EnvRemove ==
  /\ pc = "filter"
  /\ env_changes < MaxEnvChanges
  /\ \E p \in paths_to_bind \cap DOMAIN fs :
       fs' = RemoveTree(fs, p)
  /\ env_changes' = env_changes + 1
  /\ UNCHANGED << drv_path_str, pc, inspection, needs_cuda_bindings,
                  checked_features_successfully, all_paths_to_bind,
                  required_store_paths, driver_path_added, paths_to_bind,
                  valid_binds, next_bind, stdout, stderr, exit_status,
                  sp_in, sp_out, sp_done >>

----------------------------------------------------------------------------
(* Main block after classification: filter, sort, emit *)

\* an enumeration of a finite set
RECURSIVE SetToSeq(_)
SetToSeq(S) ==
  IF S = {} THEN << >>
  ELSE LET x == CHOOSE y \in S : TRUE
       IN  << x >> \o SetToSeq(S \ {x})

\* list(S): the elements in an order that is not the program's to choose;
\* the orders tried are the rotations of one enumeration
ListOrders(S) ==
  LET e == SetToSeq(S)
      n == Len(e)
  IN  IF n = 0 THEN { << >> }
      ELSE { [i \in 1..n |-> e[((i + k) % n) + 1]] : k \in 0..(n - 1) }

\* insert x into a list sorted by as_posix, after the elements not greater
RECURSIVE InsertSorted(_, _)
InsertSorted(x, l) ==
  IF l = << >> THEN << x >>
  ELSE IF StrLess(as_posix(x), as_posix(Head(l))) THEN << x >> \o l
  ELSE << Head(l) >> \o InsertSorted(x, Tail(l))

RECURSIVE SortedFrom(_, _)
SortedFrom(l, acc) ==
  IF l = << >> THEN acc
  ELSE SortedFrom(Tail(l), InsertSorted(Head(l), acc))

\* faulty variant: the list is left in listing order
sorted_by_posix_Unsorted(l) == l

\* sorted(l, key=lambda x: x.as_posix())
sorted_by_posix(l) == SortedFrom(l, << >>)

\* faulty variant: no existence test
KeepForBind_Always(f, p) == TRUE

\* the test of the final loop: p.exists() or p.is_symlink()
KeepForBind(f, p) == exists(f, p) \/ is_symlink(f, p)

\* the final loop over the sorted list
RECURSIVE BindsOf(_, _)
BindsOf(f, l) ==
  IF l = << >> THEN << >>
  ELSE IF KeepForBind(f, Head(l))
    THEN << << as_posix(Head(l)), as_posix(Head(l)) >> >> \o BindsOf(f, Tail(l))
  ELSE BindsOf(f, Tail(l))

BuildBindList ==
  /\ pc = "filter"
  /\ \E order \in ListOrders(paths_to_bind) :
       valid_binds' = BindsOf(fs, sorted_by_posix(order))
  /\ IF valid_binds' = << >>
       THEN /\ pc' = "done"
            /\ exit_status' = 0
            /\ LET io == log_info(IO, "no valid paths")
               IN  stdout' = io.out /\ stderr' = io.err
       ELSE /\ pc' = "print_header"
            /\ UNCHANGED << exit_status, stdout, stderr >>
  /\ next_bind' = 1
  /\ UNCHANGED << fs, drv_path_str, inspection, needs_cuda_bindings,
                  checked_features_successfully, all_paths_to_bind,
                  required_store_paths, driver_path_added, paths_to_bind,
                  env_changes, sp_in, sp_out, sp_done >>

PrintHeader ==
  /\ pc = "print_header"
  /\ LET io == print(log_info(IO, "adding paths to sandbox"), HEADER)
     IN  stdout' = io.out /\ stderr' = io.err
  /\ pc' = "print_binds"
  /\ UNCHANGED << fs, drv_path_str, inspection, needs_cuda_bindings,
                  checked_features_successfully, all_paths_to_bind,
                  required_store_paths, driver_path_added, paths_to_bind,
                  valid_binds, next_bind, exit_status, env_changes,
                  sp_in, sp_out, sp_done >>

\* faulty variant: the line lacks the host path
directive_GuestOnly(guest_path, host_path) == guest_path

\* f"{guest_path}={host_path}"
directive(guest_path, host_path) == guest_path \o << "=" >> \o host_path

PrintBind ==
  /\ pc = "print_binds"
  /\ next_bind <= Len(valid_binds)
  /\ LET guest_path == valid_binds[next_bind][1]
         host_path == valid_binds[next_bind][2]
         io == print(log_info(IO, "bind"), directive(guest_path, host_path))
     IN  stdout' = io.out /\ stderr' = io.err
  /\ next_bind' = next_bind + 1
  /\ UNCHANGED << fs, drv_path_str, pc, inspection, needs_cuda_bindings,
                  checked_features_successfully, all_paths_to_bind,
                  required_store_paths, driver_path_added, paths_to_bind,
                  valid_binds, exit_status, env_changes, sp_in, sp_out, sp_done >>

\* the trailing print() and the end of the script
PrintBlank ==
  /\ pc = "print_binds"
  /\ next_bind > Len(valid_binds)
  /\ LET io == log_info(print(IO, << >>), "printed")
     IN  stdout' = io.out /\ stderr' = io.err
  /\ pc' = "done"
  /\ exit_status' = 0
  /\ UNCHANGED << fs, drv_path_str, inspection, needs_cuda_bindings,
                  checked_features_successfully, all_paths_to_bind,
                  required_store_paths, driver_path_added, paths_to_bind,
                  valid_binds, next_bind, env_changes, sp_in, sp_out, sp_done >>

----------------------------------------------------------------------------
(* Initial states: the hosts and descriptors the hook is run on *)

\* descriptor identifiers
DRV_MARKED == << "/", "n", "i", "x", "/", "s", "t", "o", "r", "e", "/", "d", "4", "-", "w", "a", "n", "t", "s", "-", "c", "u", "d", "a", ".", "d", "r", "v" >>
DRV_PLAIN == << "/", "n", "i", "x", "/", "s", "t", "o", "r", "e", "/", "d", "4", "-", "p", "l", "a", "i", "n", ".", "d", "r", "v" >>

\* entries every modelled host has
BaseEntries ==
  { << p_nix, DirNode >>, << p_store, DirNode >>,
    << p_a1, DirNode >>, << p_a1_lib, DirNode >>, << p_a1_libGL1, FileNode >>,
    << p_a1_gl, DirNode >>, << p_a1_gl_lib, DirNode >>,
    << p_b2, DirNode >>, << p_b2_lib, DirNode >>, << p_b2_libcuda1, FileNode >>,
    << p_c3, DirNode >>, << p_c3_libfoo, FileNode >>,
    << p_nodash, DirNode >>, << p_nodash_lib, DirNode >>,
    << p_nodash_libx, FileNode >>,
    << p_opt, DirNode >>, << p_opt_driver, DirNode >>,
    << p_opt_driver_lib, DirNode >>,
    << p_usr, DirNode >>, << p_usr_lib, DirNode >>, << p_usr_libcuda, FileNode >>,
    << p_run, DirNode >> }

\* the states of one path: absent, or present as one of the given nodes
Choices(p, nodes) == { {} } \cup { { << p, n >> } : n \in nodes }

\* /dev: absent, or a directory with dri/card0 and some of the nvidia nodes
DevChoices ==
  { {} } \cup
  { { << DEV_DIR, DirNode >>, << p_dri, DirNode >>, << p_card0, FileNode >> }
      \cup a \cup b :
      a \in Choices(p_nvidia0, { FileNode, LinkNode(p_nvidiactl), LinkNode(p_dev_gone) }),
      b \in Choices(p_nvidiactl, { FileNode }) }

\* the entries of the driver's lib directory d
LibChoices(d) ==
  { { << Append(d, s_libfoo_so), LinkNode(p_c3_libfoo) >> } \cup a \cup b :
      a \in Choices(Append(d, s_libcuda_so),
                    { FileNode, LinkNode(p_b2_libcuda1), LinkNode(p_usr_libcuda),
                      LinkNode(p_b2_gone), LinkNode(p_nodash_libx) }),
      b \in Choices(Append(d, s_libGL_so),
                    { LinkNode(p_a1_libGL1), LinkNode(p_b2_libcuda1) }) }

\* /run/opengl-driver: absent, a broken link, a directory, or a link to a
\* directory inside or outside the store
DriverChoices ==
  { {}, { << OPENGL_DIR, LinkNode(p_run_gone) >> } }
  \cup { { << OPENGL_DIR, DirNode >>, << opengl_lib_dir, DirNode >> } \cup l :
           l \in LibChoices(opengl_lib_dir) }
  \cup UNION { { { << OPENGL_DIR, LinkNode(t) >> } \cup l :
                   l \in LibChoices(Append(t, s_lib)) } :
               t \in { p_a1, p_a1_gl, p_opt_driver, p_nodash } }

\* the descriptor: missing, a directory, an unreadable file, a readable file
DrvChoices(s) == Choices(PathFromStr(s), { DirNode, SecretNode, FileNode })

\* what varies between hosts
HostEntries == { d \cup g : d \in DevChoices, g \in DriverChoices }

\* two hosts on which every descriptor is tried: one without GPU, one with
\* device nodes, a driver root in the store and libraries from two store roots
SampleHostEntries ==
  { {},
    { << DEV_DIR, DirNode >>, << p_dri, DirNode >>, << p_card0, FileNode >>,
      << p_nvidia0, LinkNode(p_nvidiactl) >>, << p_nvidiactl, FileNode >>,
      << OPENGL_DIR, LinkNode(p_a1) >>,
      << Append(p_a1_lib, s_libfoo_so), LinkNode(p_c3_libfoo) >>,
      << Append(p_a1_lib, s_libcuda_so), LinkNode(p_b2_libcuda1) >>,
      << Append(p_a1_lib, s_libGL_so), LinkNode(p_a1_libGL1) >> } }

\* Classification does not read the host and gathering does not read the
\* descriptor: every descriptor is run on the sample hosts, and every host
\* with the missing, marked descriptor.
Init ==
  /\ \E s \in { DRV_MARKED, DRV_PLAIN } :
       \E h \in HostEntries :
         \E v \in DrvChoices(s) :
           /\ h \in SampleHostEntries \/ (s = DRV_MARKED /\ v = {})
           /\ drv_path_str = s
           /\ fs = FsOf(BaseEntries \cup h \cup v)
  /\ pc = "start"
  /\ inspection = NotInvoked
  /\ needs_cuda_bindings = FALSE
  /\ checked_features_successfully = FALSE
  /\ all_paths_to_bind = {}
  /\ required_store_paths = {}
  /\ driver_path_added = FALSE
  /\ paths_to_bind = {}
  /\ valid_binds = << >>
  /\ next_bind = 1
  /\ stdout = << >>
  /\ stderr = << >>
  /\ exit_status = -1
  /\ env_changes = 0
  /\ sp_in = << >>
  /\ sp_out = None
  /\ sp_done = FALSE

Next ==
  \/ Classify
  \/ GatherDevices
  \/ GatherDriver
  \/ GatherLibs
  \/ GatherMerge
  \/ EnvRemove
  \/ BuildBindList
  \/ PrintHeader
  \/ PrintBind
  \/ PrintBlank

Spec == Init /\ [][Next]_vars

----------------------------------------------------------------------------
(* get_store_path_parent on synthetic paths *)

s_abcd1234_mylib == << "a", "b", "c", "d", "1", "2", "3", "4", "-", "m", "y", "l", "i", "b" >>
s_store_b == << "s", "t", "o", "r", "e", "-", "b" >>

StoreSegments ==
  { s_nix, s_store, s_abcd1234_mylib, s_store_b, s_lib, s_nodash, s_libfoo_so }

\* the paths of at most n segments
RECURSIVE PathsUpTo(_)
PathsUpTo(n) ==
  IF n = 0 THEN { << >> }
  ELSE LET shorter == PathsUpTo(n - 1)
       IN  shorter \cup { Append(p, x) : p \in shorter, x \in StoreSegments }

InitStore ==
  /\ sp_in \in PathsUpTo(MaxSegs)
  /\ sp_out = None
  /\ sp_done = FALSE
  /\ drv_path_str = DRV_PLAIN
  /\ fs = FsOf(BaseEntries)
  /\ pc = "idle"
  /\ inspection = NotInvoked
  /\ needs_cuda_bindings = FALSE
  /\ checked_features_successfully = FALSE
  /\ all_paths_to_bind = {}
  /\ required_store_paths = {}
  /\ driver_path_added = FALSE
  /\ paths_to_bind = {}
  /\ valid_binds = << >>
  /\ next_bind = 1
  /\ stdout = << >>
  /\ stderr = << >>
  /\ exit_status = -1
  /\ env_changes = 0

StoreParentCall ==
  /\ pc = "idle"
  /\ ~sp_done
  /\ sp_out' = get_store_path_parent(sp_in)
  /\ sp_done' = TRUE
  /\ UNCHANGED << fs, drv_path_str, pc, inspection, needs_cuda_bindings,
                  checked_features_successfully, all_paths_to_bind,
                  required_store_paths, driver_path_added, paths_to_bind,
                  valid_binds, next_bind, stdout, stderr, exit_status,
                  env_changes, sp_in >>

NextStore == StoreParentCall

SpecStore == InitStore /\ [][NextStore]_vars


----------------------------------------------------------------------------
(* Vocabulary of the properties, stated on paths and nodes directly *)

\* p is under the store prefix: /nix/store/<segment>...
UnderStore(p) == Len(p) >= 3 /\ p[1] = s_nix /\ p[2] = s_store

\* p is under the store prefix and its first segment there contains "-"
StoreConvention(p) == UnderStore(p) /\ \E i \in 1..Len(p[3]) : p[3][i] = "-"

\* the store root of a path following the store convention
StoreRootOf(p) == << s_nix, s_store, p[3] >>

\* p is present as a file, a directory or a symlink, dangling or not
PresentOnHost(f, p) == LstatPath(f, p) # None

\* the node of the descriptor (its directories are plain directories)
DescriptorPath == << s_nix, s_store, Split(drv_path_str, "/")[4] >>
DescriptorInspectable ==
  /\ DescriptorPath \in DOMAIN fs
  /\ fs[DescriptorPath].kind = "file"
  /\ fs[DescriptorPath].readable

HasMarker ==
  \E i \in 1..Len(drv_path_str) :
    /\ i + 9 <= Len(drv_path_str)
    /\ [k \in 1..10 |-> drv_path_str[i + k - 1]] = CUDA_MARKER

Classified == pc \notin {"start", "idle"}

\* the inspection step failed: command missing, non-zero exit, output that
\* is not JSON, or an empty mapping
InspectionFailed ==
  \/ inspection.status \in {"not_found", "nonzero", "bad_json"}
  \/ inspection.status = "ok" /\ inspection.data = << >>

\* the requiredSystemFeatures a serialized attribute set parses to; << >> when
\* it is not JSON
BlobFeatures(blob) ==
  IF blob = BLOB_CUDA THEN << "cuda" >>
  ELSE IF blob = BLOB_KVM THEN << "kvm" >>
  ELSE << >>

\* the env map of a successful, non-empty inspection
InspectedEnv == Get(inspection.data[1][2], "env", EmptyDict)

\* the path a directive line names as guest path
GuestOf(line) == Split(line, "=")[1]
HostOf(line) == Split(line, "=")[2]

\* the positions of the directive lines written so far
DirectiveLines == { i \in 2..Len(stdout) : stdout[i] # << >> }

\* the gathered paths that are present on the host
FilteredBindSet == { p \in paths_to_bind : PresentOnHost(fs, p) }

\* the names in the driver's lib directory that match a library pattern
\* (every pattern is a prefix followed by "*") and are symlinks
LibSymlinks ==
  { n \in scandir(fs, opengl_lib_dir) :
      /\ \E i \in 1..Len(lib_patterns) :
           StartsWith(n, SubSeq(lib_patterns[i], 1, Len(lib_patterns[i]) - 1))
      /\ fs[Append(StatPath(fs, opengl_lib_dir), n)].kind = "link" }

\* the store roots those symlinks lead to
ExpectedLibRoots ==
  { StoreRootOf(t) :
      t \in { u \in { StatPath(fs, Append(opengl_lib_dir, n)) : n \in LibSymlinks } :
                u # None /\ StoreConvention(u) } }

\* the fully resolved target of the driver root
DriverRootTarget == StatPath(fs, OPENGL_DIR)

DriverRootIsLink ==
  OPENGL_DIR \in DOMAIN fs /\ fs[OPENGL_DIR].kind = "link"

----------------------------------------------------------------------------
(* C1 *)

\* C1: for an existing readable regular-file descriptor whose inspection
\* fails (command unavailable, non-zero exit, invalid JSON, empty mapping),
\* the classification equals the substring fallback: true iff the marker
\* "wants-cuda" occurs in the descriptor identifier.
C1_FailedInspectionFallsBack ==
  (Classified /\ DescriptorInspectable /\ inspection # NotInvoked
     /\ InspectionFailed)
    => (needs_cuda_bindings <=> HasMarker)

----------------------------------------------------------------------------
(* C2 *)

\* C2: for a descriptor that is not an existing readable regular file
\* (missing, a directory, unreadable), the inspection command is never
\* invoked and the classification is true iff the marker occurs in the
\* identifier.
C2_NoInspectionFallback ==
  (Classified /\ ~DescriptorInspectable)
    => /\ inspection = NotInvoked
       /\ ~checked_features_successfully
       /\ needs_cuda_bindings <=> HasMarker

\* a missing descriptor with the marker classified true, and an unreadable
\* one without the marker classified false
C2_Witness ==
  /\ Classified
  /\ \/ /\ DescriptorPath \notin DOMAIN fs
        /\ drv_path_str = DRV_MARKED
        /\ needs_cuda_bindings
     \/ /\ DescriptorPath \in DOMAIN fs
        /\ ~fs[DescriptorPath].readable
        /\ drv_path_str = DRV_PLAIN
        /\ ~needs_cuda_bindings
        /\ pc = "done"

----------------------------------------------------------------------------
(* C3 *)

\* C3: when inspection succeeds and env has no top-level
\* requiredSystemFeatures containing "cuda", but env["__json"] parses to an
\* object whose requiredSystemFeatures contains "cuda", the classification
\* is true.
C3_NestedJsonClassifiesTrue ==
  (Classified /\ inspection.status = "ok" /\ inspection.data # << >>
     /\ ~InList("cuda", Get(InspectedEnv, "requiredSystemFeatures", << >>))
     /\ "__json" \in DOMAIN InspectedEnv
     /\ InList("cuda", BlobFeatures(InspectedEnv["__json"])))
    => needs_cuda_bindings

----------------------------------------------------------------------------
(* C4 *)

\* C4: when the run has ended, the exit status is 0 and standard output is
\* non-empty iff the classification is true and the gathered bind set
\* filtered to existing paths is non-empty; it is then the header line, one
\* "<path>=<path>" line per filtered path, and a blank line, and otherwise
\* holds zero bytes.  While the run lasts no other exit status is set.
C4_OutputProtocol ==
  /\ exit_status \in {-1, 0}
  /\ pc = "done" =>
       /\ exit_status = 0
       /\ IF needs_cuda_bindings /\ FilteredBindSet # {}
            THEN /\ Len(stdout) = Cardinality(FilteredBindSet) + 2
                 /\ stdout[1] = HEADER
                 /\ stdout[Len(stdout)] = << >>
                 /\ { stdout[i] : i \in 2..(Len(stdout) - 1) }
                      = { as_posix(p) \o << "=" >> \o as_posix(p) :
                            p \in FilteredBindSet }
            ELSE stdout = << >>

\* both outcomes: a run that printed directives, and a run classified true
\* whose gathered set was empty
C4_Witness ==
  /\ pc = "done"
  /\ \/ Len(stdout) >= 4
     \/ needs_cuda_bindings /\ paths_to_bind = {} /\ stdout = << >>

----------------------------------------------------------------------------
(* C5 *)

\* C5: every path in an emitted directive line is present on the host (file,
\* directory or symlink, dangling included) when the bind list is built,
\* every gathered path that is no longer present is left out, and guest and
\* host path of each line are identical.
C5_OutputSound ==
  pc \in {"print_header", "print_binds", "done"} =>
    /\ \A i \in DirectiveLines :
         /\ GuestOf(stdout[i]) = HostOf(stdout[i])
         /\ PathFromStr(GuestOf(stdout[i])) \in paths_to_bind
         /\ PresentOnHost(fs, PathFromStr(GuestOf(stdout[i])))
    /\ \A i \in 1..Len(valid_binds) :
         /\ valid_binds[i][1] = valid_binds[i][2]
         /\ PresentOnHost(fs, PathFromStr(valid_binds[i][1]))
    /\ \A p \in paths_to_bind :
         ~PresentOnHost(fs, p) =>
           /\ \A i \in DirectiveLines : GuestOf(stdout[i]) # as_posix(p)
           /\ \A i \in 1..Len(valid_binds) : valid_binds[i][1] # as_posix(p)

\* a finished run that emitted a dangling symlink and left out a gathered
\* path that had disappeared
C5_Witness ==
  /\ pc = "done"
  /\ env_changes > 0
  /\ \E p \in paths_to_bind : ~PresentOnHost(fs, p)
  /\ \E i \in DirectiveLines :
       LET p == PathFromStr(GuestOf(stdout[i]))
       IN  p \in DOMAIN fs /\ fs[p].kind = "link" /\ StatPath(fs, p) = None

----------------------------------------------------------------------------
(* C6 *)

\* C6: the emitted directive lines are in strictly ascending lexicographic
\* order of the path string (so no path appears twice), whatever the order
\* in which the bind set was listed.
C6_OutputSorted ==
  /\ \A i, j \in DirectiveLines :
       i < j => StrLess(GuestOf(stdout[i]), GuestOf(stdout[j]))
  /\ \A i, j \in 1..Len(valid_binds) :
       i < j => StrLess(valid_binds[i][1], valid_binds[j][1])

\* a finished run with at least three directive lines
C6_Witness ==
  /\ pc = "done"
  /\ Cardinality(DirectiveLines) >= 3

----------------------------------------------------------------------------
(* C7 *)

\* C7: nothing is on standard output before classification, the whole
\* gather and the filtering of the full result set are complete: output
\* exists only in the emission phase or after it.
C7_EmissionDeferred ==
  stdout # << >> =>
    /\ pc \in {"print_binds", "done"}
    /\ needs_cuda_bindings
    /\ paths_to_bind = all_paths_to_bind
    /\ Len(valid_binds) = Cardinality(FilteredBindSet)
    /\ valid_binds # << >>

\* the emission phase is entered with output still empty, and a partial
\* output exists inside it
C7_Witness ==
  /\ pc = "print_binds"
  /\ Len(stdout) = 2
  /\ Len(valid_binds) >= 2
  /\ Len(stderr) >= 6

----------------------------------------------------------------------------
(* C8 *)

\* C8: for a path under the store prefix whose first segment after the
\* prefix contains "-", get_store_path_parent returns the prefix followed by
\* that segment, whatever follows it; for a path not under the store prefix
\* it returns nothing.
C8_StoreRootDerivation ==
  sp_done =>
    /\ StoreConvention(sp_in) => sp_out = StoreRootOf(sp_in)
    /\ ~UnderStore(sp_in) => sp_out = None

\* /nix/store/abcd1234-mylib/lib/libfoo.so gives /nix/store/abcd1234-mylib
C8_Witness ==
  /\ sp_done
  /\ sp_in = << s_nix, s_store, s_abcd1234_mylib, s_lib, s_libfoo_so >>
  /\ sp_out = << s_nix, s_store, s_abcd1234_mylib >>

----------------------------------------------------------------------------
(* C9 *)

\* what step 2 put into all_paths_to_bind besides the driver root
Step2Direct == (all_paths_to_bind \ DeviceNodes(fs)) \ {OPENGL_DIR}

\* the parts of C9 that do not depend on how "store path" is read: the
\* driver root is added whenever present; a target following the store
\* convention is recorded as its store root; a broken link adds nothing and
\* keeps the device paths
C9_Common ==
  /\ DeviceNodes(fs) \subseteq all_paths_to_bind
  /\ PresentOnHost(fs, OPENGL_DIR) <=> OPENGL_DIR \in all_paths_to_bind
  /\ driver_path_added <=> PresentOnHost(fs, OPENGL_DIR)
  /\ (DriverRootIsLink /\ DriverRootTarget # None
        /\ StoreConvention(DriverRootTarget))
       => /\ required_store_paths = {StoreRootOf(DriverRootTarget)}
          /\ Step2Direct = {}
  /\ (DriverRootIsLink /\ DriverRootTarget = None)
       => /\ Step2Direct = {}
          /\ required_store_paths = {}
  /\ ~DriverRootIsLink => Step2Direct = {} /\ required_store_paths = {}

\* C9 as stated: after step 2, the resolved target itself is in the result
\* set only when the target is not under the store prefix.
C9_TargetDirectOnlyOutsideStore ==
  pc = "gather_libs" =>
    /\ C9_Common
    /\ \A t \in Step2Direct : t = DriverRootTarget /\ ~UnderStore(t)

\* C9 amended: after step 2, the resolved target itself is in the result set
\* only when no store root can be derived from it, i.e. it is not under the
\* store prefix or its first segment there contains no "-".
C9_TargetDirectOnlyWithoutStoreRoot ==
  pc = "gather_libs" =>
    /\ C9_Common
    /\ \A t \in Step2Direct : t = DriverRootTarget /\ ~StoreConvention(t)

\* step 2 recorded a store root that is not the resolved target, and did not
\* add the target
C9_Witness ==
  /\ pc = "gather_libs"
  /\ DriverRootTarget = p_a1_gl
  /\ required_store_paths = {p_a1}
  /\ p_a1_gl \notin all_paths_to_bind
  /\ DeviceNodes(fs) # {}

----------------------------------------------------------------------------
(* C10 *)

\* the store roots of the matching library symlinks, taking prefix plus first
\* segment as the store root of every target under the store prefix
LibRootsUnderStore ==
  { StoreRootOf(t) :
      t \in { u \in { StatPath(fs, Append(opengl_lib_dir, n)) : n \in LibSymlinks } :
                u # None /\ UnderStore(u) } }

\* the set gather returns while the host is unchanged: steps 1 and 2 and the
\* required store roots, nothing else
ReturnedSetIsUnion ==
  (pc = "filter" /\ env_changes = 0) =>
    /\ required_store_paths \subseteq paths_to_bind
    /\ paths_to_bind =
         DeviceNodes(fs) \cup (IF PresentOnHost(fs, OPENGL_DIR)
                                 THEN {OPENGL_DIR} ELSE {})
           \cup DriverTarget(fs).direct \cup required_store_paths

\* C10: the library scan runs only if step 2 added the driver root and its
\* lib subdirectory is a directory; the returned set then contains the store
\* root of every entry of that directory that matches a library pattern, is
\* a symlink and resolves under the store prefix, and nothing comes from
\* entries that are not symlinks, do not resolve or resolve outside the
\* store.
C10_LibraryScanUnderStore ==
  /\ pc = "gather_merge" =>
       required_store_paths =
         DriverTarget(fs).store \cup
           (IF driver_path_added /\ is_dir(fs, opengl_lib_dir)
              THEN LibRootsUnderStore ELSE {})
  /\ ReturnedSetIsUnion

\* C10 amended: as C10, for the entries whose target is under the store
\* prefix with a first segment there that contains "-"; a target under the
\* store prefix without such a segment contributes nothing.
C10_LibraryScan ==
  /\ pc = "gather_merge" =>
       required_store_paths =
         DriverTarget(fs).store \cup
           (IF driver_path_added /\ is_dir(fs, opengl_lib_dir)
              THEN ExpectedLibRoots ELSE {})
  /\ ReturnedSetIsUnion

\* gather returned a store root found only through a library symlink, next
\* to the one the driver root points to; the entry matching no pattern gave
\* nothing
C10_Witness ==
  /\ pc = "filter"
  /\ env_changes = 0
  /\ DriverRootTarget = p_a1
  /\ p_b2 \in paths_to_bind
  /\ p_a1 \in paths_to_bind
  /\ p_c3 \notin paths_to_bind
  /\ Cardinality(LibSymlinks) = 2

====
